---- MODULE Spec2Model ----
(***************************************************************************)
(* Model of src/src/line.rs (rustyline-async): the LineState of the line   *)
(* editor, its key-event dispatcher, its render/erase protocol and the     *)
(* output interleaver, together with the terminal the commands are sent to. *)
(*                                                                         *)
(* Strings are sequences of characters.  Every character carries the three *)
(* measures the code mixes: its UTF-8 length in bytes (String::len, byte   *)
(* offsets of grapheme_indices), its display width (UnicodeWidthStr) and   *)
(* its grapheme-cluster class (UnicodeSegmentation, extended clusters).    *)
(*   "a" ">" "x" " "  ASCII, 1 byte, width 1                                *)
(*   "W"              a wide CJK character (U+4E2D): 3 bytes, width 2       *)
(*   "s"              a spacing combining mark (U+093E): 3 bytes, width 1,  *)
(*                    never starts a cluster unless it is first in the text *)
(*   "\n"             line feed, only in printed data                       *)
(***************************************************************************)
EXTENDS Integers, Sequences, FiniteSets

VARIABLES line, line_cursor_grapheme, current_column, cluster_buffer,
          last_line_length, last_line_completed, term_size,
          term, outcome, ops, pc

vars == <<line, line_cursor_grapheme, current_column, cluster_buffer,
          last_line_length, last_line_completed, term_size,
          term, outcome, ops, pc>>

\* ------------------------------------------------------------------ bounds
\* characters are typed while the text is shorter than MaxLen (TMaxLen when the
\* terminal is observed) and cluster_buffer is kept within MaxCluster
MaxLen == 2
MaxCluster == 2
TMaxLen == 2
MaxOps == 3
TermRows == 5

\* a write fault is put at one of the first MaxCommands terminal commands of a call
MaxCommands == 5

\* ------------------------------------------------------- program constants
U16 == 65536

\* ------------------------------------------------------------- characters
Chars == {"a", " ", "W", "s"}
TChars == {"a", "W"}
Widths == {3, 4}

ByteLen(c) == IF c \in {"W", "s"} THEN 3 ELSE 1

Width(c) == IF c = "W" THEN 2 ELSE 1

IsExtend(c) == c = "s"

RECURSIVE StrLen(_)
StrLen(s) == IF s = <<>> THEN 0 ELSE ByteLen(Head(s)) + StrLen(Tail(s))

RECURSIVE StrWidth(_)
StrWidth(s) == IF s = <<>> THEN 0 ELSE Width(Head(s)) + StrWidth(Tail(s))

\* the characters of s that lie before byte offset pos
RECURSIVE CharsBefore(_, _)
CharsBefore(s, pos) ==
    IF s = <<>> \/ pos <= 0 THEN 0
    ELSE 1 + CharsBefore(Tail(s), pos - ByteLen(Head(s)))

\* str[0..pos] for a byte offset pos on a character boundary
Prefix(s, pos) == SubSeq(s, 1, CharsBefore(s, pos))

Suffix(s, pos) == SubSeq(s, CharsBefore(s, pos) + 1, Len(s))

\* the length in characters of the cluster that starts at character i
RECURSIVE ClusterEnd(_, _)
ClusterEnd(s, i) ==
    IF i < Len(s) /\ IsExtend(s[i + 1]) THEN ClusterEnd(s, i + 1) ELSE i

\* str.grapheme_indices(true): the clusters with their byte offsets
RECURSIVE GraphemesFrom(_, _)
GraphemesFrom(s, i) ==
    IF i > Len(s) THEN <<>>
    ELSE LET e == ClusterEnd(s, i)
         IN  <<[pos |-> StrLen(SubSeq(s, 1, i - 1)), str |-> SubSeq(s, i, e)]>>
             \o GraphemesFrom(s, e + 1)

grapheme_indices(s) == GraphemesFrom(s, 1)

grapheme_count(s) == Len(grapheme_indices(s))

None == [some |-> FALSE, pos |-> 0, str |-> <<>>]

Some(g) == [some |-> TRUE, pos |-> g.pos, str |-> g.str]

Min(a, b) == IF a < b THEN a ELSE b

saturating_sub(a, b) == IF a < b THEN 0 ELSE a - b

\* ------------------------------------------------------------ the prompt
prompt == <<">", " ">>

PromptWidth == StrWidth(prompt)

\* --------------------------------------------------------------- terminal
\* The sink the commands go to: a screen of TermRows rows, the cursor's row
\* and column (0-based; col = width means the cursor sits after the last
\* column, the next character wraps), and the cells.  A wide character takes
\* two cells and wraps whole when only one cell is left.  A command with
\* count 0 does not move the cursor.  Column 1 is the first column.
BlankRow(w) == [i \in 1..w |-> "_"]

NewTerm(w) == [row |-> 0, col |-> 0, cells |-> [r \in 1..TermRows |-> BlankRow(w)],
               armed |-> FALSE, fuel |-> 0, failed |-> FALSE]

\* a sink whose content is not observed
NullTerm == [row |-> 0, col |-> 0, cells |-> <<>>,
             armed |-> FALSE, fuel |-> 0, failed |-> FALSE]

\* a write fault: the terminal takes fuel commands, the next one returns an
\* error; an unarmed terminal takes every command
NoFault == [armed |-> FALSE, fuel |-> 0]

FaultAt(n) == [armed |-> TRUE, fuel |-> n]

Faults == {NoFault} \cup {FaultAt(n) : n \in 0..(MaxCommands - 1)}

Arm(t, fault) == [t EXCEPT !.armed = fault.armed, !.fuel = fault.fuel]

Disarm(t) == [t EXCEPT !.armed = FALSE, !.fuel = 0, !.failed = FALSE]

Failed(t) == t.failed

\* one command sent with `?`: done is the terminal after the command.  After
\* an error the caller returns at once, so no later command reaches it.
Try(t, done) ==
    IF t.failed THEN t
    ELSE IF t.armed /\ t.fuel = 0 THEN [t EXCEPT !.failed = TRUE]
    ELSE IF t.armed THEN [done EXCEPT !.fuel = t.fuel - 1]
    ELSE done

Observed(t) == t.cells # <<>>

TermWidth(t) == Len(t.cells[1])

NewLine(t) ==
    IF t.row + 1 < Len(t.cells)
    THEN [t EXCEPT !.row = t.row + 1]
    ELSE [t EXCEPT !.cells = Tail(t.cells) \o <<BlankRow(TermWidth(t))>>]

PutChar(t, c) ==
    IF c = "\n" THEN NewLine(t)
    ELSE LET w  == TermWidth(t)
             t1 == IF t.col + Width(c) > w
                   THEN [NewLine(t) EXCEPT !.col = 0]
                   ELSE t
             r  == t1.row + 1
             k  == t1.col + 1
         IN  [t1 EXCEPT !.col = t1.col + Width(c),
                        !.cells[r] = [i \in 1..w |->
                            IF i = k THEN c
                            ELSE IF i > k /\ i < k + Width(c) THEN "+"
                            ELSE t1.cells[r][i]]]

RECURSIVE PutAll(_, _)
PutAll(t, s) == IF s = <<>> THEN t ELSE PutAll(PutChar(t, Head(s)), Tail(s))

Write(t, s) == Try(t, IF Observed(t) THEN PutAll(t, s) ELSE t)

MoveToColumn(t, n) ==
    Try(t, IF Observed(t)
           THEN [t EXCEPT !.col = Min(saturating_sub(n, 1), TermWidth(t) - 1)]
           ELSE t)

MoveUp(t, n) ==
    Try(t, IF Observed(t) /\ n > 0
           THEN [t EXCEPT !.row = saturating_sub(t.row, n),
                          !.col = Min(t.col, TermWidth(t) - 1)]
           ELSE t)

MoveDown(t, n) ==
    Try(t, IF Observed(t) /\ n > 0
           THEN [t EXCEPT !.row = Min(t.row + n, Len(t.cells) - 1),
                          !.col = Min(t.col, TermWidth(t) - 1)]
           ELSE t)

MoveRight(t, n) ==
    Try(t, IF Observed(t) /\ n > 0
           THEN [t EXCEPT !.col =
                    Min(Min(t.col, TermWidth(t) - 1) + n, TermWidth(t) - 1)]
           ELSE t)

MoveTo(t, x, y) ==
    Try(t, IF Observed(t)
           THEN [t EXCEPT !.row = Min(y, Len(t.cells) - 1),
                          !.col = Min(x, TermWidth(t) - 1)]
           ELSE t)

ClearFromCursorDown(t) ==
    Try(t, IF Observed(t)
           THEN [t EXCEPT !.cells = [r \in 1..Len(t.cells) |->
                     IF r < t.row + 1 THEN t.cells[r]
                     ELSE IF r > t.row + 1 THEN BlankRow(TermWidth(t))
                     ELSE [i \in 1..TermWidth(t) |->
                              IF i >= t.col + 1 THEN "_" ELSE t.cells[r][i]]]]
           ELSE t)

ClearAll(t) ==
    Try(t, IF Observed(t)
           THEN [t EXCEPT !.cells =
                    [r \in 1..Len(t.cells) |-> BlankRow(TermWidth(t))]]
           ELSE t)

\* the emulator after its window was resized to w columns
Resized(t, w) == IF Observed(t) THEN NewTerm(w) ELSE t

\* ------------------------------------------------------------- LineState
\* self is the record of the fields of LineState
Self == [line |-> line, line_cursor_grapheme |-> line_cursor_grapheme,
         current_column |-> current_column, cluster_buffer |-> cluster_buffer,
         last_line_length |-> last_line_length,
         last_line_completed |-> last_line_completed, term_size |-> term_size]

new(size) == [line |-> <<>>, line_cursor_grapheme |-> 0,
              current_column |-> StrLen(prompt) % U16, cluster_buffer |-> <<>>,
              last_line_length |-> 0, last_line_completed |-> TRUE,
              term_size |-> size]

line_height(self, pos) == pos \div self.term_size[1]

move_to_beginning(self, t, from) ==
    MoveUp(MoveToColumn(t, 1), line_height(self, saturating_sub(from, 1)))

move_from_beginning(self, t, to) ==
    MoveRight(MoveDown(t, line_height(self, saturating_sub(to, 1))),
              to % self.term_size[1])

current_grapheme(self) ==
    LET gs == grapheme_indices(self.line)
        n  == Min(self.line_cursor_grapheme, Len(gs))
    IN  IF n = 0 THEN None ELSE Some(gs[n])

\* move_cursor without the clamp to the cluster count
move_cursor_unclamped(self, change) ==
    LET cur == IF change > 0
               THEN self.line_cursor_grapheme + change
               ELSE saturating_sub(self.line_cursor_grapheme, -change)
        s1  == [self EXCEPT !.line_cursor_grapheme = cur]
        g   == current_grapheme(s1)
        pos == g.pos + StrLen(g.str)
    IN  [s1 EXCEPT !.current_column =
            (StrLen(prompt) + StrWidth(Prefix(s1.line, pos))) % U16]

move_cursor(self, change) ==
    LET cur == IF change > 0
               THEN Min(self.line_cursor_grapheme + change, grapheme_count(self.line))
               ELSE saturating_sub(self.line_cursor_grapheme, -change)
        s1  == [self EXCEPT !.line_cursor_grapheme = cur]
        g   == current_grapheme(s1)
        pos == g.pos + StrLen(g.str)
    IN  [s1 EXCEPT !.current_column =
            (StrLen(prompt) + StrWidth(Prefix(s1.line, pos))) % U16]

reset_cursor(self, t) == move_to_beginning(self, t, self.current_column)

set_cursor(self, t) == move_from_beginning(self, t, self.current_column)

clear(self, t) ==
    ClearFromCursorDown(move_to_beginning(self, t, self.current_column))

render(self, t) ==
    LET t1 == Write(t, prompt \o self.line)
        line_len == StrLen(prompt) + StrWidth(self.line)
    IN  move_from_beginning(self,
            move_to_beginning(self, t1, line_len % U16), self.current_column)

clear_and_render(self, t) == render(self, clear(self, t))

\* ---------------------------------------------------- output interleaver
ends_with_newline(data) == data # <<>> /\ data[Len(data)] = "\n"

\* the first line of data, its line terminator included
RECURSIVE FirstLine(_)
FirstLine(data) ==
    IF data = <<>> THEN <<>>
    ELSE IF Head(data) = "\n" THEN <<"\n">>
    ELSE <<Head(data)>> \o FirstLine(Tail(data))

\* for line in data.split_inclusive('\n') { write_all(line); MoveToColumn(1) }
RECURSIVE WriteLines(_, _)
WriteLines(t, data) ==
    IF data = <<>> THEN t
    ELSE LET l == FirstLine(data)
         IN  WriteLines(MoveToColumn(Write(t, l), 1),
                        SubSeq(data, Len(l) + 1, Len(data)))

print_data(self, data, t) ==
    LET t1 == clear(self, t)
        t2 == IF ~self.last_line_completed
              THEN MoveRight(MoveToColumn(MoveUp(t1, 1), 1),
                             self.last_line_length % U16)
              ELSE t1
        t3 == WriteLines(t2, data)
        completed == ends_with_newline(data)
        grown == self.last_line_length + StrLen(data)
        wraps == grown >= self.term_size[1]
        s1 == [self EXCEPT !.last_line_completed = completed,
                           !.last_line_length =
                               IF completed THEN 0
                               ELSE IF wraps THEN grown % self.term_size[1]
                               ELSE grown]
        t4 == IF completed THEN t3
              ELSE IF wraps THEN Write(Write(t3, <<"\n">>), <<"\n">>)
              ELSE Write(t3, <<"\n">>)
        t5 == MoveToColumn(t4, 1)
    IN  [self |-> IF Failed(t3) THEN self ELSE s1, term |-> render(s1, t5)]

print(self, string, t) == print_data(self, string, t)

\* ------------------------------------------------------- event dispatcher
NoResult == [kind |-> "none", line |-> <<>>]

Submitted(l) == [kind |-> "submitted", line |-> l]

Interrupted == [kind |-> "interrupted", line |-> <<>>]

Eof == [kind |-> "eof", line |-> <<>>]

IoFailure == [kind |-> "io", line |-> <<>>]

\* the call did not return: a panic unwinds out of handle_event
Panicked == [kind |-> "panic", line |-> <<>>]

Key(code, modifiers) == [type |-> "key", code |-> code, modifiers |-> modifiers,
                         c |-> "", x |-> 0, y |-> 0]

CharKey(c, modifiers) == [type |-> "key", code |-> "Char", modifiers |-> modifiers,
                          c |-> c, x |-> 0, y |-> 0]

ResizeEvent(x, y) == [type |-> "resize", code |-> "", modifiers |-> "", c |-> "",
                      x |-> x, y |-> y]

OtherEvent == [type |-> "other", code |-> "", modifiers |-> "", c |-> "",
               x |-> 0, y |-> 0]

Result(self, t, out) == [self |-> self, term |-> t, out |-> out]

\* the return at the end of an arm: the last `?` may have failed
Ret(self, t, out) == Result(self, t, IF Failed(t) THEN IoFailure ELSE out)

\* .rev().skip(count - cursor).skip_while(== " ").find(== " "), from cluster n down
RECURSIVE RevFindSpace(_, _, _)
RevFindSpace(gs, n, skipping) ==
    IF n = 0 THEN None
    ELSE IF gs[n].str = <<" ">>
         THEN IF skipping THEN RevFindSpace(gs, n - 1, TRUE) ELSE Some(gs[n])
         ELSE RevFindSpace(gs, n - 1, FALSE)

\* .skip(cursor).skip_while(== " ").find(== " "), from cluster n up
RECURSIVE FindSpace(_, _, _)
FindSpace(gs, n, skipping) ==
    IF n > Len(gs) THEN None
    ELSE IF gs[n].str = <<" ">>
         THEN IF skipping THEN FindSpace(gs, n + 1, TRUE) ELSE Some(gs[n])
         ELSE FindSpace(gs, n + 1, FALSE)

\* Enter without the cursor reset
on_enter_no_reset(self, t) ==
    LET t1 == clear(self, t)
        taken == self.line
        s1 == [self EXCEPT !.line = <<>>]
    IN  IF Failed(t1) THEN Result(self, t1, IoFailure)
        ELSE Ret(s1, render(s1, t1), Submitted(taken))

on_enter(self, t) ==
    LET t1 == clear(self, t)
        taken == self.line
        s1 == move_cursor([self EXCEPT !.line = <<>>], -100000)
    IN  IF Failed(t1) THEN Result(self, t1, IoFailure)
        ELSE Ret(s1, render(s1, t1), Submitted(taken))

on_backspace(self, t) ==
    LET g == current_grapheme(self)
    IN  IF g.some
        THEN LET t1 == clear(self, t)
                 len == g.pos + StrLen(g.str)
                 s1 == [self EXCEPT !.line =
                           Prefix(self.line, g.pos) \o Suffix(self.line, len)]
                 s2 == move_cursor(s1, -1)
             IN  IF Failed(t1) THEN Result(self, t1, IoFailure)
                 ELSE Ret(s2, render(s2, t1), NoResult)
        ELSE Result(self, t, NoResult)

on_move(self, t, change) ==
    LET t1 == reset_cursor(self, t)
        s1 == move_cursor(self, change)
    IN  IF Failed(t1) THEN Result(self, t1, IoFailure)
        ELSE Ret(s1, set_cursor(s1, t1), NoResult)

\* Up and Down: found is what history.search_next / search_previous returned
on_history(self, t, found) ==
    IF found.some
    THEN LET s1 == [self EXCEPT !.line = found.str]
             t1 == clear(s1, t)
             s2 == move_cursor(s1, 100000)
         IN  IF Failed(t1) THEN Result(s1, t1, IoFailure)
             ELSE Ret(s2, render(s2, t1), NoResult)
    ELSE Result(self, t, NoResult)

cluster_push(self, c) ==
    LET prev_len == grapheme_count(self.cluster_buffer)
        pushed == Append(self.cluster_buffer, c)
        new_len == grapheme_count(pushed)
    IN  [prev_len |-> prev_len, new_len |-> new_len, buf |-> pushed]

on_char(self, t, c) ==
    LET t1 == clear(self, t)
        cl == cluster_push(self, c)
        g == current_grapheme(self)
        pos == g.pos + StrLen(g.str)
        s1 == [self EXCEPT !.cluster_buffer = cl.buf,
                           !.line = Prefix(self.line, pos) \o <<c>>
                                    \o Suffix(self.line, pos)]
        s2 == IF cl.prev_len # cl.new_len
              THEN LET m == move_cursor(s1, 1)
                   IN  IF cl.prev_len > 0
                       THEN LET first == grapheme_indices(m.cluster_buffer)[1]
                            IN  [m EXCEPT !.cluster_buffer =
                                   Prefix(m.cluster_buffer, first.pos)
                                   \o Suffix(m.cluster_buffer, StrLen(first.str))]
                       ELSE m
              ELSE s1
    IN  IF Failed(t1) THEN Result(self, t1, IoFailure)
        ELSE Ret(s2, render(s2, t1), NoResult)

\* Ctrl-D returning Eof whatever the terminal answered
on_ctrl_d_unchecked(self, t) == Result(self, clear(self, Write(t, <<"\n">>)), Eof)

on_ctrl_d(self, t) == Ret(self, clear(self, Write(t, <<"\n">>)), Eof)

\* Ctrl-C falling through to Ok(None)
on_ctrl_c_no_return(self, t) ==
    LET p == print(self, prompt \o self.line, t)
        s1 == move_cursor([p.self EXCEPT !.line = <<>>], -10000)
    IN  IF Failed(p.term) THEN Result(p.self, p.term, IoFailure)
        ELSE Ret(s1, clear_and_render(s1, p.term), NoResult)

on_ctrl_c(self, t) ==
    LET p == print(self, prompt \o self.line, t)
        s1 == move_cursor([p.self EXCEPT !.line = <<>>], -10000)
    IN  IF Failed(p.term) THEN Result(p.self, p.term, IoFailure)
        ELSE Ret(s1, clear_and_render(s1, p.term), Interrupted)

on_ctrl_l(self, t) ==
    Ret(self, clear_and_render(self, MoveTo(ClearAll(t), 0, 0)), NoResult)

on_ctrl_u(self, t) ==
    LET g == current_grapheme(self)
    IN  IF g.some
        THEN LET pos == g.pos + StrLen(g.str)
                 s1 == move_cursor([self EXCEPT !.line = Suffix(self.line, pos)], -10000)
             IN  Ret(s1, clear_and_render(s1, t), NoResult)
        ELSE Result(self, t, NoResult)

\* the build checks arithmetic overflow (the dev profile); without the checks
\* an unsigned subtraction below zero wraps
overflow_checks == TRUE

on_ctrl_left(self, t) ==
    LET t1 == reset_cursor(self, t)
        gs == grapheme_indices(self.line)
        count == Len(gs)
        underflow == self.line_cursor_grapheme > count
        skip_count == count - self.line_cursor_grapheme
        \* a wrapped skip_count skips every cluster: nothing is found
        f == IF underflow THEN None ELSE RevFindSpace(gs, count - skip_count, TRUE)
        s1 == IF f.some
              THEN move_cursor(self, (f.pos - self.line_cursor_grapheme) + 1)
              ELSE move_cursor(self, -10000)
    IN  IF Failed(t1) THEN Result(self, t1, IoFailure)
        ELSE IF underflow /\ overflow_checks THEN Result(self, t1, Panicked)
        ELSE Ret(s1, set_cursor(s1, t1), NoResult)

on_ctrl_right(self, t) ==
    LET t1 == reset_cursor(self, t)
        gs == grapheme_indices(self.line)
        f == FindSpace(gs, self.line_cursor_grapheme + 1, TRUE)
        s1 == IF f.some
              THEN move_cursor(self, f.pos - self.line_cursor_grapheme)
              ELSE move_cursor(self, 10000)
    IN  IF Failed(t1) THEN Result(self, t1, IoFailure)
        ELSE Ret(s1, set_cursor(s1, t1), NoResult)

\* pos / self.term_size.0 and to % self.term_size.0 panic for 0 columns
divides_by_zero(self) == self.term_size[1] = 0

\* clear_and_render reaches line_height before its first command
on_resize(self, t, x, y) ==
    LET s1 == [self EXCEPT !.term_size = <<x, y>>]
    IN  IF divides_by_zero(s1)
        THEN Result(s1, t, Panicked)
        ELSE Ret(s1, clear_and_render(s1, t), NoResult)

\* a default arm that redraws the line
ignored_redraws(self, t) == Result(self, clear_and_render(self, t), NoResult)

\* the default arms `_ => {}`, falling through to Ok(None)
ignored(self, t) == Result(self, t, NoResult)

\* found is the answer of the history collaborator, used by Up and Down only
handle_event(self, t, event, found) ==
    IF event.type = "key" /\ event.modifiers \in {"NONE", "SHIFT"}
    THEN CASE event.code = "Enter" -> on_enter(self, t)
           [] event.code = "Backspace" -> on_backspace(self, t)
           [] event.code = "Left" -> on_move(self, t, -1)
           [] event.code = "Right" -> on_move(self, t, 1)
           [] event.code = "Home" -> on_move(self, t, -100000)
           [] event.code = "End" -> on_move(self, t, 100000)
           [] event.code \in {"Up", "Down"} -> on_history(self, t, found)
           [] event.code = "Char" -> on_char(self, t, event.c)
           [] OTHER -> ignored(self, t)
    ELSE IF event.type = "key" /\ event.modifiers = "CONTROL"
    THEN CASE event.code = "Char" /\ event.c = "d" -> on_ctrl_d(self, t)
           [] event.code = "Char" /\ event.c = "c" -> on_ctrl_c(self, t)
           [] event.code = "Char" /\ event.c = "l" -> on_ctrl_l(self, t)
           [] event.code = "Char" /\ event.c = "u" -> on_ctrl_u(self, t)
           [] event.code = "Left" -> on_ctrl_left(self, t)
           [] event.code = "Right" -> on_ctrl_right(self, t)
           [] OTHER -> ignored(self, t)
    ELSE IF event.type = "resize"
    THEN on_resize(self, t, event.x, event.y)
    ELSE ignored(self, t)

\* ------------------------------------------------------------ collaborators
\* what history.search_next / search_previous may answer
HistEntries == {<<"a">>, <<"W", " ", "a">>}

Found == {None} \cup {Some([pos |-> 0, str |-> h]) : h \in HistEntries}

\* the chunks handed to print
PrintChunks == {<<"x">>, <<"x", "x">>, <<"x", "\n">>}

\* ------------------------------------------------------------------ actions
Apply(r) ==
    /\ line' = r.self.line
    /\ line_cursor_grapheme' = r.self.line_cursor_grapheme
    /\ current_column' = r.self.current_column
    /\ cluster_buffer' = r.self.cluster_buffer
    /\ last_line_length' = r.self.last_line_length
    /\ last_line_completed' = r.self.last_line_completed
    /\ term_size' = r.self.term_size
    /\ term' = r.term
    /\ outcome' = r.out

Plain == {"NONE", "SHIFT"}

Codes == {"Enter", "Backspace", "Left", "Right", "Home", "End", "Up", "Down", "Tab"}

\* the events the event source delivers, typing the characters cs and
\* resizing to the column counts ws
Events(cs, ws) ==
    {Key(k, m) : k \in Codes, m \in Plain}
    \cup {CharKey(c, m) : c \in cs, m \in Plain}
    \cup {CharKey(c, "CONTROL") : c \in {"d", "c", "l", "u", "x"}}
    \cup {Key(k, "CONTROL") : k \in {"Left", "Right", "Tab"}}
    \cup {Key(k, "ALT") : k \in {"Left", "Enter"}}
    \cup {ResizeEvent(x, TermRows) : x \in ws}
    \cup {OtherEvent}

IsHistoryKey(ev) ==
    ev.type = "key" /\ ev.modifiers \in Plain /\ ev.code \in {"Up", "Down"}

IsCharKey(ev) == ev.type = "key" /\ ev.modifiers \in Plain /\ ev.code = "Char"

\* the terminal as handle_event finds it: a resize event follows the resize
TermAt(ev) == IF ev.type = "resize" THEN Resized(term, ev.x) ELSE term

\* one call of handle_event, on a terminal with one of the write faults fs
HandleEvent(cs, maxlen, ws, fs) ==
    \E ev \in Events(cs, ws), found \in Found, fault \in fs :
        /\ found.some => IsHistoryKey(ev)
        /\ IsCharKey(ev) => Len(line) < maxlen
        /\ LET r == handle_event(Self, Arm(TermAt(ev), fault), ev, found)
           IN  /\ Len(r.self.cluster_buffer) <= MaxCluster
               /\ Apply(Result(r.self, Disarm(r.term), r.out))

Interleave ==
    \E d \in PrintChunks :
        LET p == print(Self, d, term)
        IN  Apply([self |-> p.self, term |-> p.term, out |-> NoResult])

Render == Apply(Result(Self, render(Self, term), NoResult))

ClearAndRender ==
    Apply(Result(Self, clear_and_render(Self, term), NoResult))

InitWith(t, w) ==
    LET s == new(<<w, TermRows>>)
    IN  /\ line = s.line
        /\ line_cursor_grapheme = s.line_cursor_grapheme
        /\ current_column = s.current_column
        /\ cluster_buffer = s.cluster_buffer
        /\ last_line_length = s.last_line_length
        /\ last_line_completed = s.last_line_completed
        /\ term_size = s.term_size
        /\ term = t
        /\ outcome = NoResult
        /\ ops = 0
        /\ pc = "idle"

\* the editor alone: the sink is not observed
Init == \E w \in Widths : InitWith(NullTerm, w)

Next ==
    \/ HandleEvent(Chars, MaxLen, Widths, {NoFault}) /\ UNCHANGED <<ops, pc>>
    \/ Interleave /\ UNCHANGED <<ops, pc>>
    \/ Render /\ UNCHANGED <<ops, pc>>
    \/ ClearAndRender /\ UNCHANGED <<ops, pc>>

Spec == Init /\ [][Next]_vars

\* the editor and the terminal it draws on
InitT == \E w \in Widths : InitWith(NewTerm(w), w)

\* the terminal's content grows with every operation: runs of MaxOps operations
Counted == ops < MaxOps /\ ops' = ops + 1

NextT ==
    \/ HandleEvent(TChars, TMaxLen, Widths, {NoFault}) /\ Counted /\ UNCHANGED pc
    \/ Interleave /\ Counted /\ UNCHANGED pc
    \/ Render /\ Counted /\ UNCHANGED pc
    \/ ClearAndRender /\ Counted /\ UNCHANGED pc

TermSpec == InitT /\ [][NextT]_vars

\* the editor alone, on a terminal that may report any column count; nothing
\* runs after a panic
Running == outcome.kind # "panic"

NextZ ==
    \/ /\ Running
       /\ HandleEvent(Chars, MaxLen, Widths \cup {0}, {NoFault})
       /\ UNCHANGED <<ops, pc>>
    \/ Running /\ Interleave /\ UNCHANGED <<ops, pc>>
    \/ Running /\ Render /\ UNCHANGED <<ops, pc>>
    \/ Running /\ ClearAndRender /\ UNCHANGED <<ops, pc>>

ZeroSpec == Init /\ [][NextZ]_vars

\* the editor alone, on a terminal whose writes may fail
NextIo ==
    \/ Running /\ HandleEvent(TChars, TMaxLen, Widths, Faults) /\ UNCHANGED <<ops, pc>>
    \/ Running /\ Interleave /\ UNCHANGED <<ops, pc>>
    \/ Running /\ Render /\ UNCHANGED <<ops, pc>>
    \/ Running /\ ClearAndRender /\ UNCHANGED <<ops, pc>>

IoSpec == Init /\ [][NextIo]_vars

\* the call of handle_event in its two parts, on the terminal it draws on.
\* pc is where the call is: "update" while it is suspended in
\* history.update().await, "idle" when no call is under way.  The call holds
\* &mut self and the terminal until it returns, so nothing else runs on them
\* while it is suspended.
LineStateVars == <<line, line_cursor_grapheme, current_column, cluster_buffer,
                   last_line_length, last_line_completed, term_size>>

\* a call that clears the drawn line before it awaits update()
CallClearingFirst ==
    /\ pc = "idle"
    /\ pc' = "update"
    /\ term' = clear(Self, term)
    /\ UNCHANGED <<LineStateVars, outcome>>

\* handle_event is called: it awaits history.update() before the match
CallHandleEvent ==
    /\ pc = "idle"
    /\ pc' = "update"
    /\ UNCHANGED <<LineStateVars, term, outcome>>

\* update() has returned: the match runs to the end of the call
ResumeHandleEvent(cs, maxlen, ws) ==
    /\ pc = "update"
    /\ pc' = "idle"
    /\ HandleEvent(cs, maxlen, ws, {NoFault})

NextA ==
    \/ CallHandleEvent /\ Counted
    \/ ResumeHandleEvent(TChars, TMaxLen, Widths) /\ Counted
    \/ pc = "idle" /\ Interleave /\ Counted /\ UNCHANGED pc
    \/ pc = "idle" /\ Render /\ Counted /\ UNCHANGED pc
    \/ pc = "idle" /\ ClearAndRender /\ Counted /\ UNCHANGED pc

AwaitSpec == InitT /\ [][NextA]_vars

\* ================================================================== claims
\* the byte offset of the cursor: the end of the cluster before it
CursorByteOffset(l, cur) ==
    LET gs == grapheme_indices(l)
    IN  IF cur = 0 THEN 0 ELSE gs[cur].pos + StrLen(gs[cur].str)

ColumnIsFresh ==
    line_cursor_grapheme <= grapheme_count(line) =>
        current_column = PromptWidth
            + StrWidth(Prefix(line, CursorByteOffset(line, line_cursor_grapheme)))

\* C3: Enter (no modifier or Shift) returns submitted(t) for the text t before
\* the event and leaves text empty, cursor 0, current_column = prompt width.
EnterSubmitsAndResets ==
    /\ \A m \in Plain :
          LET r == handle_event(Self, term, Key("Enter", m), None)
          IN  /\ r.out = Submitted(line)
              /\ r.self.line = <<>>
              /\ r.self.line_cursor_grapheme = 0
              /\ r.self.current_column = PromptWidth
    /\ outcome.kind = "submitted" =>
          line = <<>> /\ line_cursor_grapheme = 0 /\ current_column = PromptWidth

\* C3 witness: Enter has just returned a text of several characters
SubmittedSomeText ==
    /\ outcome.kind = "submitted"
    /\ Len(outcome.line) >= 2
    /\ line = <<>>

\* C4: with the terminal accepting every write, Ctrl-D returns EndOfInput and
\* Ctrl-C returns Interrupted, whatever the text and the cursor are.
EofAndInterruptReported ==
    /\ handle_event(Self, term, CharKey("d", "CONTROL"), None).out = Eof
    /\ handle_event(Self, term, CharKey("c", "CONTROL"), None).out = Interrupted

\* C4 witness: Ctrl-D has returned EndOfInput on a text that was not empty
EofOnNonEmptyText == outcome = Eof /\ line # <<>> /\ line_cursor_grapheme > 0

\* C5: when Ctrl-C or Ctrl-D returns, text is empty, cursor_grapheme is 0 and
\* current_column is the prompt width.
InterruptAndEofDiscardText ==
    outcome.kind \in {"interrupted", "eof"} =>
        line = <<>> /\ line_cursor_grapheme = 0 /\ current_column = PromptWidth

\* the character typed at byte offset pos is a cluster of its own in l
OwnCluster(l, pos, c) ==
    \E i \in 1..grapheme_count(l) :
        grapheme_indices(l)[i] = [pos |-> pos, str |-> <<c>>]

\* C6: in every reachable state a character key inserts the character at the
\* cursor; a character that is a cluster of its own advances cursor_grapheme
\* by 1 and current_column by its display width.
CharKeyAdvancesCursor ==
    \A c \in Chars, m \in Plain :
        LET r == handle_event(Self, term, CharKey(c, m), None)
            pos == CursorByteOffset(line, line_cursor_grapheme)
        IN  /\ r.self.line = Prefix(line, pos) \o <<c>> \o Suffix(line, pos)
            /\ OwnCluster(r.self.line, pos, c) =>
                  /\ r.self.line_cursor_grapheme = line_cursor_grapheme + 1
                  /\ r.self.current_column = current_column + Width(c)

\* C7: a character key for a character that is one whole cluster, followed by
\* Backspace, restores text, cursor_grapheme and current_column.
InsertThenBackspaceRoundTrip ==
    \A c \in Chars, m \in Plain :
        LET r == handle_event(Self, term, CharKey(c, m), None)
            b == handle_event(r.self, r.term, Key("Backspace", m), None)
            pos == CursorByteOffset(line, line_cursor_grapheme)
        IN  OwnCluster(r.self.line, pos, c) =>
                /\ b.self.line = line
                /\ b.self.line_cursor_grapheme = line_cursor_grapheme
                /\ b.self.current_column = current_column

\* the cluster index where the word before cluster index n starts: leftwards
\* over a run of spaces, then over the word, to just after the next space
RECURSIVE WordStart(_, _, _)
WordStart(gs, n, in_spaces) ==
    IF n = 0 THEN 0
    ELSE IF gs[n].str = <<" ">>
         THEN IF in_spaces THEN WordStart(gs, n - 1, TRUE) ELSE n
         ELSE WordStart(gs, n - 1, FALSE)

\* C8: Ctrl-Left moves the cursor to the cluster index where the word before
\* the cursor starts, never to the right, and leaves the text unchanged, for
\* every text.
CtrlLeftMovesToWordStart ==
    LET r == handle_event(Self, term, Key("Left", "CONTROL"), None)
    IN  /\ r.self.line = line
        /\ r.self.line_cursor_grapheme <= line_cursor_grapheme
        /\ r.self.line_cursor_grapheme =
               WordStart(grapheme_indices(line), line_cursor_grapheme, TRUE)

\* C9: chunks printed one by one, none with a line terminator but the last
\* ending with one, leave the screen as one print of their concatenation does.
ChunkedPrintLikeSinglePrint ==
    \A c1 \in {d \in PrintChunks : ~ends_with_newline(d)},
       c2 \in {d \in PrintChunks : ends_with_newline(d)} :
        LET p1 == print(Self, c1, term)
            p2 == print(p1.self, c2, p1.term)
            q  == print(Self, c1 \o c2, term)
        IN  p2.term = q.term

\* C10: clear_and_render called twice in a row leaves the terminal cursor and
\* the screen as calling it once does.
ClearAndRenderIdempotent ==
    LET once == clear_and_render(Self, term)
    IN  clear_and_render(Self, once) = once

\* the events outside the dispatch table: a modifier set that is not none,
\* Shift or Control; a key code no arm binds; neither key nor resize
Unbound ==
    {Key(k, "ALT") : k \in Codes}
    \cup {CharKey(c, "ALT") : c \in Chars \cup {"d", "c", "l", "u"}}
    \cup {Key("Tab", m) : m \in Plain \cup {"CONTROL"}}
    \cup {Key(k, "CONTROL") : k \in Codes \ {"Left", "Right"}}
    \cup {CharKey(c, "CONTROL") : c \in {"x", "a", "W"}}
    \cup {OtherEvent}

\* C13: an event outside the dispatch table leaves every field of LineState
\* unchanged, sends nothing to the terminal and returns no-result.
UnboundEventIgnored ==
    \A ev \in Unbound, found \in Found :
        handle_event(Self, term, ev, found) = Result(Self, term, NoResult)

\* C13 witness: a drawn line with the cursor inside the text and external
\* output pending on an unterminated row, where a redraw would be visible
IgnorableWhileEditing ==
    /\ Observed(term)
    /\ line # <<>>
    /\ line_cursor_grapheme < grapheme_count(line)
    /\ ~last_line_completed
    /\ outcome = NoResult

\* the screen positions <<row, col>>, rows counted from the first row of the
\* prompt, that show column c of a line drawn w columns wide: the cell of
\* column c, or for a full row the place after its last cell (where the
\* terminal shows the cursor on the last cell)
LogicalSpots(c, w) ==
    {<<c \div w, c % w>>}
    \cup (IF c > 0 /\ c % w = 0
          THEN {<<(c \div w) - 1, w>>, <<(c \div w) - 1, w - 1>>}
          ELSE {})

\* C14: after render on a blank screen the terminal cursor is at the wrapped
\* row and in-row offset of current_column, for every current_column.
CursorAtLogicalSpot ==
    LET w == term_size[1]
        t == render(Self, NewTerm(w))
    IN  <<t.row, t.col>> \in LogicalSpots(current_column, w)

\* the terminal after render has drawn the line of self on a blank screen
Drawn(self) == render(self, NewTerm(self.term_size[1]))

\* the keys that edit the text and redraw the line
EditKeys ==
    {Key(k, "NONE") : k \in {"Enter", "Backspace", "Up", "Down"}}
    \cup {CharKey(c, "NONE") : c \in TChars}
    \cup {CharKey("u", "CONTROL")}

\* C15: an editing key pressed on the drawn line leaves on screen the new line
\* as render draws it and no cell of the old render.
ClearErasesOldRender ==
    \A ev \in EditKeys, found \in Found :
        (found.some => IsHistoryKey(ev)) =>
            LET r == handle_event(Self, Drawn(Self), ev, found)
            IN  r.term.cells = Drawn(r.self).cells

\* chunks with line terminators inside, besides the chunks of PrintChunks
MixedChunks == PrintChunks \cup {<<"x", "\n", "x">>, <<"\n", "x", "x">>}

\* the part of data after its last line terminator
RECURSIVE AfterLastNewline(_)
AfterLastNewline(data) ==
    IF data = <<>> \/ data[Len(data)] = "\n" THEN <<>>
    ELSE Append(AfterLastNewline(SubSeq(data, 1, Len(data) - 1)), data[Len(data)])

\* C16: after print of a chunk, last_line_completed tells whether the chunk
\* ended in a line terminator, and last_line_length is the length of the text
\* printed since the last line terminator modulo the terminal width, also for
\* a chunk with line terminators followed by unterminated text.
PrintBookkeeping ==
    \A d \in MixedChunks :
        LET p == print(Self, d, term).self
            tail == AfterLastNewline(d)
            since == IF tail = d THEN last_line_length + StrLen(d) ELSE StrLen(tail)
        IN  /\ p.last_line_completed = ends_with_newline(d)
            /\ p.last_line_length = since % term_size[1]

\* the cluster index where the word after cluster index n - 1 ends: rightwards
\* over a run of spaces, then over the word, to just before the next space
RECURSIVE WordEnd(_, _, _)
WordEnd(gs, n, in_spaces) ==
    IF n > Len(gs) THEN Len(gs)
    ELSE IF gs[n].str = <<" ">>
         THEN IF in_spaces THEN WordEnd(gs, n + 1, TRUE) ELSE n - 1
         ELSE WordEnd(gs, n + 1, FALSE)

\* C17: Ctrl-Right moves the cursor to the cluster index of the next space
\* after the word it skips, or to the end, never to the left, and leaves the
\* text unchanged, for every text.
CtrlRightMovesToWordEnd ==
    LET r == handle_event(Self, term, Key("Right", "CONTROL"), None)
    IN  /\ r.self.line = line
        /\ r.self.line_cursor_grapheme >= line_cursor_grapheme
        /\ r.self.line_cursor_grapheme =
               WordEnd(grapheme_indices(line), line_cursor_grapheme + 1, TRUE)

\* C19: handle_event leaves last_line_completed and last_line_length as they
\* were, whatever the event and its outcome.
EventsKeepPrintBookkeeping ==
    \A ev \in Events(Chars, Widths), found \in Found :
        (found.some => IsHistoryKey(ev)) =>
            LET r == handle_event(Self, TermAt(ev), ev, found)
            IN  /\ r.self.last_line_completed = last_line_completed
                /\ r.self.last_line_length = last_line_length

\* the outcomes handle_event returns
Outcomes == {"none", "submitted", "interrupted", "eof", "io"}

\* C18: handle_event completes with an outcome for every event in every
\* reachable state, a resize to zero columns included.
HandleEventCompletes == outcome.kind \in Outcomes

\* C11: a failed terminal command makes handle_event return IoFailure, never
\* submitted, Interrupted or EndOfInput, and no later command reaches the
\* terminal; handle_event returns IoFailure in no other case.
IoFailureReturnedAtOnce ==
    \A ev \in Events(TChars, Widths), found \in Found :
        (found.some => IsHistoryKey(ev)) =>
            LET ok == handle_event(Self, TermAt(ev), ev, found)
            IN  \A fault \in Faults :
                    LET r == handle_event(Self, Arm(TermAt(ev), fault), ev, found)
                    IN  IF Failed(r.term)
                        THEN r.out = IoFailure /\ r.term.fuel = 0
                        ELSE r = Result(ok.self, Arm(ok.term, r.term), ok.out)

\* C11 witness: handle_event has returned IoFailure while a text was edited
IoFailureWhileEditing ==
    /\ outcome = IoFailure
    /\ line # <<>>
    /\ line_cursor_grapheme > 0

\* C20: when handle_event has returned IoFailure, cursor_grapheme is at most
\* the cluster count of the text and current_column matches the text before
\* the cursor.
ConsistentAfterIoFailure ==
    outcome = IoFailure =>
        /\ line_cursor_grapheme <= grapheme_count(line)
        /\ current_column = PromptWidth
               + StrWidth(Prefix(line, CursorByteOffset(line,
                     Min(line_cursor_grapheme, grapheme_count(line)))))

\* C12: handle_event awaits history.update() before anything else: the step
\* that suspends the call in update() changes no field of LineState, sends
\* nothing to the terminal and returns nothing, and the call is suspended
\* nowhere else, so the dispatch of an event is one step that starts when
\* update() has returned.
UpdateBeforeDispatch ==
    [][/\ pc' = "update" => pc = "idle" /\ UNCHANGED <<LineStateVars, term, outcome>>
       /\ pc = "update" => pc' = "idle"]_vars

\* C12 witness: a call is suspended in update() while a drawn text is edited
SuspendedWhileEditing ==
    /\ pc = "update"
    /\ line # <<>>
    /\ Observed(term)

====
